---- MODULE Spec2Model ----
(***************************************************************************)
(* Model of models.py: the assembly of NBodyModel and QM9Model from the    *)
(* equivariant attention modules, and their forward passes over a graph.   *)
(* Modules of modules.attn_modules and the dgl pooling layers are opaque:  *)
(* a constructed module is the record of its constructor arguments, and a  *)
(* call of a module is a symbolic term over its inputs.                    *)
(***************************************************************************)
EXTENDS Integers, Sequences, FiniteSets, TLC

(* ---- bounds of the model ---- *)
MaxLayers == 2
MaxHidden == 2
MaxHeads == 1
MaxDiv == 2
MaxHiddenDim == 2
MaxRescale == 1
NumGraphs == 2
NumNodes == 2

GraphIds == 1..NumGraphs

(* pooling arguments tried: the three accepted ones and another string *)
PoolingArgs == {"max", "avg", "sum", "min"}

(* values of row 5 of the node feature 'f' in a freshly loaded graph *)
F5Inputs == {0, 9}

(* ---- rationals num/den in lowest terms, den > 0 ---- *)
RECURSIVE GCD(_, _)
GCD(a, b) == IF b = 0 THEN a ELSE GCD(b, a % b)

Rat(n, d) == LET g == GCD(n, d) IN [num |-> n \div g, den |-> d \div g]

RECURSIVE Pow9(_)
Pow9(k) == IF k = 0 THEN 1 ELSE 9 * Pow9(k - 1)

(* ---- tensors of a graph ---- *)

(* t[:, 0, :] : three indices need a tensor of three dimensions *)
CanSlice0(t) == Len(t.shape) = 3

Slice0(t) == [shape |-> <<t.shape[1], t.shape[3]>>, data |-> <<t.data, "[:,0,:]">>]

(* t[:, 5, :] = t[:, 5, :] / 9. , written in place *)
DivRow5By9(t) == [t EXCEPT !.row5 = Rat(t.row5.num, t.row5.den * 9)]

FreshGraph(g, f5) ==
    [v |-> [shape |-> <<NumNodes, 1, 3>>, data |-> <<"v", g>>],
     x |-> [shape |-> <<NumNodes, 1, 3>>, data |-> <<"x", g>>],
     f |-> [shape |-> <<NumNodes, 6, 1>>, row5 |-> Rat(f5, 1)]]

VARIABLES model, graphs, last
vars == <<model, graphs, last>>

NoModel == [cls |-> "none"]
NoCall == [cls |-> "none"]

(* ==== module constructors of modules.attn_modules and dgl: a built module ==== *)
(* ==== is the record of the arguments it was built with                   ==== *)

SO3EquivariantAttenRes(m_in, m_qk, m_v, m_out, edge_dim, heads, recurrent, skip_type, input_LN) ==
    [kind |-> "SO3EquivariantAttenRes", m_in |-> m_in, m_qk |-> m_qk, m_v |-> m_v,
     m_out |-> m_out, edge_dim |-> edge_dim, heads |-> heads, recurrent |-> recurrent,
     skip_type |-> skip_type, input_LN |-> input_LN]

NormBias(m_in, shifted, init) ==
    [kind |-> "NormBias", m_in |-> m_in, shifted |-> shifted, init |-> init]

SO3LayerNorm(m_in) == [kind |-> "SO3LayerNorm", m_in |-> m_in]

SO3EquivariantVector(m_in_vec, m_out_vec, m_in_s, m_out_s, input_LN, net_archi) ==
    [kind |-> "SO3EquivariantVector", m_in_vec |-> m_in_vec, m_out_vec |-> m_out_vec,
     m_in_s |-> m_in_s, m_out_s |-> m_out_s, input_LN |-> input_LN, net_archi |-> net_archi]

build_MLP_network(in_dim, out_dim, archi) ==
    [kind |-> "MLP", in_dim |-> in_dim, out_dim |-> out_dim, archi |-> archi]

(* ==== NBodyModel ==== *)

(* one pass of the loop body of _build_network; st = the locals and GBlock *)
NBodyLoopBodyKeepsMIn(self, st) ==
    [GBlock |-> st.GBlock
                \o <<SO3EquivariantAttenRes(st.m_in, st.m_hidden, st.m_hidden, st.m_hidden,
                                            self.edge_dim, 1, st.recurrent_flag,
                                            self.skip_type, st.inputLN_flag)>>
                \o <<NormBias(st.m_hidden, "LN", "rand")>>,
     m_in |-> st.m_in,
     m_hidden |-> st.m_hidden,
     m_out |-> st.m_out,
     inputLN_flag |-> self.input_LN,
     recurrent_flag |-> self.recurrent]

NBodyLoopBody(self, st) ==
    [GBlock |-> st.GBlock
                \o <<SO3EquivariantAttenRes(st.m_in, st.m_hidden, st.m_hidden, st.m_hidden,
                                            self.edge_dim, 1, st.recurrent_flag,
                                            self.skip_type, st.inputLN_flag)>>
                \o <<NormBias(st.m_hidden, "LN", "rand")>>,
     m_in |-> st.m_hidden,
     m_hidden |-> st.m_hidden,
     m_out |-> st.m_out,
     inputLN_flag |-> self.input_LN,
     recurrent_flag |-> self.recurrent]

(* for _ in range(k): body *)
RECURSIVE NBodyLoop(_, _, _)
NBodyLoop(self, k, st) ==
    IF k <= 0 THEN st ELSE NBodyLoop(self, k - 1, NBodyLoopBody(self, st))

NBody_build_network(self) ==
    LET st0 == [GBlock |-> <<>>,
                m_in |-> self.input_channels,
                m_hidden |-> self.hidden_channels,
                m_out |-> self.output_channels,
                recurrent_flag |-> FALSE,
                inputLN_flag |-> FALSE]
        st == NBodyLoop(self, self.num_layers, st0)
    IN  st.GBlock
        \o <<SO3EquivariantAttenRes(st.m_in, st.m_out, st.m_out, st.m_out,
                                    self.edge_dim, 1, FALSE, self.skip_type, st.inputLN_flag)>>

NBodyModel(num_layers, num_hidden_channels) ==
    LET self == [num_layers |-> num_layers,
                 input_channels |-> [vec |-> 1, scalar |-> 0],
                 hidden_channels |-> [vec |-> num_hidden_channels,
                                      scalar |-> num_hidden_channels],
                 output_channels |-> [vec |-> 2, scalar |-> 0],
                 edge_dim |-> 1,
                 skip_type |-> "cat",
                 input_LN |-> FALSE,
                 recurrent |-> TRUE]
    IN  [cls |-> "NBodyModel",
         args |-> [num_layers |-> num_layers, num_hidden_channels |-> num_hidden_channels],
         raised |-> "none",
         self |-> self @@ [GBlock |-> NBody_build_network(self)]]

(* ==== QM9Model ==== *)

NoAttrs == [a \in {} |-> 0]

(* assert pooling in ['max', 'avg', 'sum'] *)
PoolingAcceptedAny(pooling) == TRUE

PoolingAccepted(pooling) == pooling \in {"max", "avg", "sum"}

(* the if / elif / elif chain of _build_net: no branch, no attribute *)
QM9_pooling_layer(self) ==
    IF self.pooling = "max" THEN [pooling_layer |-> [kind |-> "MaxPooling"]]
    ELSE IF self.pooling = "avg" THEN [pooling_layer |-> [kind |-> "AvgPooling"]]
    ELSE IF self.pooling = "sum" THEN [pooling_layer |-> [kind |-> "SumPooling"]]
    ELSE NoAttrs

(* one pass of the loop body of _build_net *)
QM9LoopBody(self, GBlock) ==
    GBlock
    \o <<SO3EquivariantAttenRes(self.hidden_channels, self.qk_channels, self.v_channels,
                                self.hidden_channels, self.edge_dim, self.heads,
                                self.recurrent, self.skip_type, self.input_LN)>>
    \o <<NormBias(self.hidden_channels, "BN", "zero")>>

RECURSIVE QM9Loop(_, _, _)
QM9Loop(self, k, GBlock) ==
    IF k <= 0 THEN GBlock ELSE QM9Loop(self, k - 1, QM9LoopBody(self, GBlock))

QM9_build_net(self) ==
    LET m_in == self.input_channels
        m_out == self.output_channels
        m_hidden == self.hidden_channels
    IN  [embedding |-> SO3EquivariantVector(m_in.vec, m_hidden.vec, m_in.scalar,
                                            m_hidden.scalar, "default", "embedding_mlp"),
         edge_embedding |-> build_MLP_network(5, 8, "embedding_mlp"),
         GBlock |-> QM9Loop(self, self.num_layers, <<SO3LayerNorm(m_hidden)>>),
         node_mapping |-> SO3EquivariantVector(m_hidden.vec, m_out.vec, m_hidden.scalar,
                                               m_out.scalar, self.input_LN,
                                               "out_node_graph_mlp")]
        @@ QM9_pooling_layer(self)
        @@ [res_drop |-> [kind |-> "Dropout"],
            graph_mapping |-> build_MLP_network(m_out.scalar, 1, "out_node_graph_mlp")]

QM9Model(num_layers, pooling, heads, div, hidden_dim) ==
    LET args == [num_layers |-> num_layers, pooling |-> pooling, heads |-> heads,
                 div |-> div, hidden_dim |-> hidden_dim]
        self == [num_layers |-> num_layers,
                 my_hidden_dim |-> hidden_dim,
                 input_channels |-> [vec |-> 0, scalar |-> 6],
                 hidden_channels |-> [vec |-> 0, scalar |-> hidden_dim],
                 qk_channels |-> [vec |-> 0, scalar |-> hidden_dim \div div],
                 v_channels |-> [vec |-> 0, scalar |-> hidden_dim \div div],
                 output_channels |-> [vec |-> 0, scalar |-> hidden_dim],
                 edge_dim |-> 5,
                 heads |-> heads,
                 pooling |-> pooling,
                 recurrent |-> TRUE,
                 skip_type |-> "gate",
                 input_LN |-> FALSE]
    IN  IF ~PoolingAccepted(pooling)
        THEN [cls |-> "QM9Model", args |-> args, raised |-> "AssertionError",
              self |-> NoAttrs]
        ELSE [cls |-> "QM9Model", args |-> args, raised |-> "none",
              self |-> self @@ QM9_build_net(self)]

(* ==== forward ==== *)

(* values computed by opaque modules and tensor operators are symbolic terms *)
Term(op, args) == [op |-> op, args |-> args]

(* the dictionary {key: value} *)
Dict(key, value) == Term("dict", <<key, value>>)

(* d[key] *)
Item(d, key) ==
    IF d.op = "dict" /\ d.args[1] = key THEN d.args[2] ELSE Term("getitem", <<d, key>>)

(* one call of a module: what was called, with which features and graph, and its result; *)
(* G = 0 when the call passes no graph                                                   *)
ModuleCall(callee, module, features, G) ==
    [callee |-> callee, module |-> module, features |-> features, G |-> G,
     out |-> Term("call", <<callee, features, G>>)]

(* `for layer in self.GBlock`: the indices of GBlock in the order they are visited *)
LoopOrder(GBlock) == [k \in 1..Len(GBlock) |-> k - 1]

(* features = layer(features, G=G) *)
LayerStep(GBlock, i, st, G) ==
    LET ev == ModuleCall(<<"GBlock", i>>, GBlock[i + 1], st.features, G)
    IN  [features |-> ev.out, log |-> Append(st.log, ev)]

RECURSIVE RunLayers(_, _, _, _)
RunLayers(GBlock, order, st, G) ==
    IF order = <<>> THEN st
    ELSE RunLayers(GBlock, Tail(order), LayerStep(GBlock, Head(order), st, G), G)

(* for layer in self.GBlock: features = layer(features, G=G) *)
RunGBlock(GBlock, features, log, G) ==
    RunLayers(GBlock, LoopOrder(GBlock), [features |-> features, log |-> log], G)

(* return features['vec'] *)
NBodyReturnScalar(features) == Item(features, "scalar")

NBodyReturn(features) == Item(features, "vec")

(* NBodyModel.forward(G): the graph data after the call and the call's outcome *)
NBodyForward(self, g, ndata) ==
    LET features == Dict("vec", ndata.v)
    IN  IF ~CanSlice0(ndata.x)
        THEN [post |-> ndata, log |-> <<>>, raised |-> "IndexError", ret |-> Term("none", <<>>)]
        ELSE LET post == [ndata EXCEPT !.x = Slice0(ndata.x)]
                 st == RunGBlock(self.GBlock, features, <<>>, g)
             IN  [post |-> post, log |-> st.log, raised |-> "none",
                  ret |-> NBodyReturn(st.features)]

(* QM9Model.forward(G) *)
QM9Forward(self, g, ndata) ==
    LET post == [ndata EXCEPT !.f = DivRow5By9(ndata.f)]
        features0 == Dict("scalar", post.f)
        emb == ModuleCall(<<"embedding">>, self.embedding, features0, 0)
        st == RunGBlock(self.GBlock, emb.out, <<emb>>, g)
        nm == ModuleCall(<<"node_mapping">>, self.node_mapping, st.features, 0)
        features1 == Item(nm.out, "scalar")
        rd == ModuleCall(<<"res_drop">>, self.res_drop, Item(st.features, "scalar"), 0)
        summed == Term("add", <<features1, rd.out>>)
        log1 == st.log \o <<nm, rd>>
    IN  IF "pooling_layer" \notin DOMAIN self
        THEN [post |-> post, log |-> log1, raised |-> "AttributeError",
              ret |-> Term("none", <<>>)]
        ELSE LET pl == ModuleCall(<<"pooling_layer">>, self.pooling_layer,
                                  Term("getitem", <<summed, "...,0">>), g)
                 gm == ModuleCall(<<"graph_mapping">>, self.graph_mapping, pl.out, 0)
             IN  [post |-> post, log |-> log1 \o <<pl, gm>>, raised |-> "none",
                  ret |-> gm.out]

Init ==
    /\ model = NoModel
    /\ \E fs \in [GraphIds -> F5Inputs] :
          graphs = [g \in GraphIds |-> FreshGraph(g, fs[g])]
    /\ last = NoCall

(* model = NBodyModel(num_layers, num_hidden_channels); a run builds one model *)
ConstructNBody ==
    \E n \in 0..MaxLayers, h \in 1..MaxHidden :
        /\ model = NoModel
        /\ model' = NBodyModel(n, h)
        /\ last' = NoCall
        /\ UNCHANGED graphs

(* model = QM9Model(num_layers, pooling, heads, div, hidden_dim) *)
ConstructQM9 ==
    \E n \in 0..MaxLayers, p \in PoolingArgs, hd \in 1..MaxHeads,
       d \in 1..MaxDiv, dim \in 1..MaxHiddenDim :
        /\ model = NoModel
        /\ model' = QM9Model(n, p, hd, d, dim)
        /\ last' = NoCall
        /\ UNCHANGED graphs

(* a graph object is given freshly loaded data *)
LoadGraph ==
    \E g \in GraphIds, f5 \in F5Inputs :
        /\ graphs' = [graphs EXCEPT ![g] = FreshGraph(g, f5)]
        /\ last' = NoCall
        /\ UNCHANGED model

(* model(G) on an NBodyModel *)
CallNBodyForward ==
    \E g \in GraphIds :
        /\ model.cls = "NBodyModel"
        /\ model.raised = "none"
        /\ LET r == NBodyForward(model.self, g, graphs[g])
           IN  /\ graphs' = [graphs EXCEPT ![g] = r.post]
               /\ last' = [cls |-> "NBodyModel", G |-> g, pre |-> graphs[g], post |-> r.post,
                           log |-> r.log, raised |-> r.raised, ret |-> r.ret]
        /\ UNCHANGED model

(* model(G) on a QM9Model; the number of rescalings of one graph's data is capped *)
CallQM9Forward ==
    \E g \in GraphIds :
        /\ model.cls = "QM9Model"
        /\ model.raised = "none"
        /\ graphs[g].f.row5.den < Pow9(MaxRescale)
        /\ LET r == QM9Forward(model.self, g, graphs[g])
           IN  /\ graphs' = [graphs EXCEPT ![g] = r.post]
               /\ last' = [cls |-> "QM9Model", G |-> g, pre |-> graphs[g], post |-> r.post,
                           log |-> r.log, raised |-> r.raised, ret |-> r.ret]
        /\ UNCHANGED model

Next ==
    \/ ConstructNBody
    \/ ConstructQM9
    \/ LoadGraph
    \/ CallNBodyForward
    \/ CallQM9Forward

Spec == Init /\ [][Next]_vars

(* ==== properties ==== *)

Built == model.cls # "none" /\ model.raised = "none"

Returned == last.cls # "none" /\ last.raised = "none"

IsAtten(m) == m.kind = "SO3EquivariantAttenRes"

AttenIdx(GBlock) == {i \in DOMAIN GBlock : IsAtten(GBlock[i])}

IsLayerCall(ev) == ev.callee[1] = "GBlock"

LayerCalls == SelectSeq(last.log, IsLayerCall)

(* C1: a QM9Model built with a pooling argument outside max/avg/sum fails with an   *)
(* assertion error before anything of _build_net is built; with an accepted value   *)
(* the construction succeeds and pooling_layer is the pooling of that name, so a    *)
(* constructed QM9Model always has a pooling_layer.                                 *)
C1_PoolingValidated ==
    model.cls = "QM9Model" =>
        /\ model.args.pooling \notin {"max", "avg", "sum"} =>
              /\ model.raised = "AssertionError"
              /\ DOMAIN model.self
                   \cap {"embedding", "edge_embedding", "GBlock", "node_mapping",
                         "pooling_layer", "res_drop", "graph_mapping"} = {}
        /\ model.args.pooling = "max" =>
              model.raised = "none" /\ model.self.pooling_layer.kind = "MaxPooling"
        /\ model.args.pooling = "avg" =>
              model.raised = "none" /\ model.self.pooling_layer.kind = "AvgPooling"
        /\ model.args.pooling = "sum" =>
              model.raised = "none" /\ model.self.pooling_layer.kind = "SumPooling"
        /\ model.raised = "none" => "pooling_layer" \in DOMAIN model.self

C1_Witness ==
    /\ model.cls = "QM9Model"
    /\ model.args.pooling = "min"
    /\ model.raised = "AssertionError"

(* C2: in every forward call (of either model) every module of GBlock is invoked    *)
(* exactly once, in list order, each receiving the features the one before it       *)
(* returned and the graph the call was given.                                       *)
C2_EveryLayerOnceInOrder ==
    last.cls # "none" =>
        /\ Len(LayerCalls) = Len(model.self.GBlock)
        /\ \A k \in 1..Len(LayerCalls) :
              /\ LayerCalls[k].callee = <<"GBlock", k - 1>>
              /\ LayerCalls[k].module = model.self.GBlock[k]
              /\ LayerCalls[k].G = last.G
              /\ k > 1 => LayerCalls[k].features = LayerCalls[k - 1].out

(* C3: NBodyModel.forward returns the 'vec' entry of what the last GBlock module     *)
(* returned, that module being an attention block with m_out = {vec: 2, scalar: 0},  *)
(* and calls no pooling; QM9Model.forward calls embedding, the GBlock modules,       *)
(* node_mapping (summed with the residual), pooling_layer once, and graph_mapping    *)
(* (built with out_dim = 1), whose result it returns.                                *)
C3_ForwardResult ==
    /\ (Returned /\ last.cls = "NBodyModel") =>
          LET n == Len(last.log)
              ev == last.log[n]
          IN  /\ n = Len(model.self.GBlock)
              /\ ev.callee = <<"GBlock", n - 1>>
              /\ IsAtten(ev.module)
              /\ ev.module.m_out = [vec |-> 2, scalar |-> 0]
              /\ last.ret = Item(ev.out, "vec")
              /\ \A k \in 1..n : IsLayerCall(last.log[k])
    /\ (Returned /\ last.cls = "QM9Model") =>
          LET n == Len(last.log)
              b == Len(model.self.GBlock)
              nm == last.log[n - 3]
              rd == last.log[n - 2]
              pl == last.log[n - 1]
              gm == last.log[n]
          IN  /\ n = b + 5
              /\ last.log[1].callee = <<"embedding">>
              /\ \A k \in 1..b : last.log[k + 1].callee = <<"GBlock", k - 1>>
              /\ last.log[2].features = last.log[1].out
              /\ nm.callee = <<"node_mapping">>
              /\ nm.features = last.log[b + 1].out
              /\ rd.callee = <<"res_drop">>
              /\ rd.features = Item(last.log[b + 1].out, "scalar")
              /\ pl.callee = <<"pooling_layer">>
              /\ pl.module = model.self.pooling_layer
              /\ pl.G = last.G
              /\ pl.features
                   = Term("getitem", <<Term("add", <<Item(nm.out, "scalar"), rd.out>>), "...,0">>)
              /\ Cardinality({k \in 1..n : last.log[k].callee = <<"pooling_layer">>}) = 1
              /\ gm.callee = <<"graph_mapping">>
              /\ gm.module.out_dim = 1
              /\ gm.features = pl.out
              /\ last.ret = gm.out

C3_Witness ==
    /\ Returned
    /\ last.cls = "QM9Model"
    /\ model.self.num_layers >= 1
    /\ last.ret.op = "call"

(* C4: after forward(G) returns, the node data of G it read (v and x for NBodyModel, *)
(* f for QM9Model) has the value and shape it had before the call.                   *)
C4_ForwardLeavesGraphData ==
    Returned =>
        /\ last.cls = "NBodyModel" => (last.post.v = last.pre.v /\ last.post.x = last.pre.x)
        /\ last.cls = "QM9Model" => last.post.f = last.pre.f

(* C5: a model constructed with num_layers = n has exactly n attention blocks in    *)
(* its GBlock.                                                                      *)
C5_NumLayersIsAttentionCount ==
    Built => Cardinality(AttenIdx(model.self.GBlock)) = model.args.num_layers

(* C6: in a constructed QM9Model the query/key and value sizes equal div: the       *)
(* scalar entries of qk_channels and v_channels, and of the m_qk and m_v of every    *)
(* attention block.                                                                 *)
C6_DivIsQKVSize ==
    (Built /\ model.cls = "QM9Model") =>
        /\ model.self.qk_channels.scalar = model.args.div
        /\ model.self.v_channels.scalar = model.args.div
        /\ \A i \in AttenIdx(model.self.GBlock) :
              /\ model.self.GBlock[i].m_qk.scalar = model.args.div
              /\ model.self.GBlock[i].m_v.scalar = model.args.div

(* C7: along the GBlock of an NBodyModel the channel sizes chain: the first         *)
(* attention block takes input_channels {vec: 1, scalar: 0}, every later attention   *)
(* block takes the m_out of the attention block before it, every NormBias takes the  *)
(* m_out of the attention block directly before it, the final block is an attention  *)
(* block with m_out = output_channels, and for num_layers = 0 GBlock is that single  *)
(* block from input_channels to output_channels.                                     *)
C7_ChannelsChain ==
    model.cls = "NBodyModel" =>
        LET GB == model.self.GBlock
            A == AttenIdx(GB)
            first == CHOOSE i \in A : \A j \in A : i <= j
            prev(i) == CHOOSE j \in A : j < i /\ \A l \in A : l < i => l <= j
        IN  /\ A # {}
            /\ first = 1
            /\ GB[first].m_in = [vec |-> 1, scalar |-> 0]
            /\ GB[first].m_in = model.self.input_channels
            /\ \A i \in A : i # first => GB[i].m_in = GB[prev(i)].m_out
            /\ \A i \in DOMAIN GB :
                  GB[i].kind = "NormBias" =>
                      /\ i > 1
                      /\ IsAtten(GB[i - 1])
                      /\ GB[i].m_in = GB[i - 1].m_out
            /\ IsAtten(GB[Len(GB)])
            /\ GB[Len(GB)].m_out = model.self.output_channels
            /\ model.args.num_layers = 0 =>
                  /\ Len(GB) = 1
                  /\ GB[1].m_in = model.self.input_channels
                  /\ GB[1].m_out = model.self.output_channels

C7_Witness ==
    /\ model.cls = "NBodyModel"
    /\ model.args.num_layers >= 2
    /\ Len(model.self.GBlock) >= 5
====
